---- MODULE Spec2Model ----
(***************************************************************************)
(* Model of src/src/io.rs of rust-postgres: open_socket and                *)
(* initialize_stream.  One behaviour is one call of initialize_stream;     *)
(* every blocking call it makes (connect, write_message, flush, read_u8,   *)
(* ssl::SslStream::new) is one step whose outcome the environment (the OS, *)
(* the server, the encryption provider) chooses.                           *)
(***************************************************************************)
EXTENDS Integers, Sequences, FiniteSets, TLC

\* ------------------------------------------------------------------ bounds
\* Number of distinct I/O error values (and of handshake error values).
MaxErr == 2
\* Number of distinct encryption contexts a caller may supply.
MaxCtx == 2
\* Number of distinct hosts / socket directories.
MaxTarget == 2
\* Largest buffer a caller hands to read on the returned stream.
MaxBuf == 1

\* --------------------------------------------------------------- constants
DEFAULT_PORT == 5432
\* 'N' as u8
DeclineByte == 78
\* message::SSL_CODE
SSL_CODE == 80877103

Bytes == 0..255
IoErrors == 1..MaxErr
SslErrors == 1..MaxErr
Contexts == 1..MaxCtx
\* Port is u16; a sample covering one to five decimal digits and the default.
Ports == {0, 7, 10, DEFAULT_PORT, 65535}

\* Option<T>: None is <<>>, Some(v) is <<v>>.
None == <<>>
Some(v) == <<v>>

\* Result<T, E>
Ok(v) == [tag |-> "Ok", val |-> v]
Err(e) == [tag |-> "Err", val |-> e]
Pending == [tag |-> "Pending", val |-> None]

\* A host name or a directory path: a sequence of components, each a
\* sequence of characters.
Name(i) == [k \in 1..i |-> <<"d">>]
Names == {Name(i) : i \in 1..MaxTarget}

Targets == {[kind |-> k, name |-> n] : k \in {"TargetTcp", "TargetUnix"}, n \in Names}
Params == {[target |-> t, port |-> p] : t \in Targets, p \in {None} \cup {Some(q) : q \in Ports}}
SslModes == {[mode |-> "NoSsl", ctx |-> None]}
            \cup {[mode |-> m, ctx |-> Some(c)] : m \in {"PreferSsl", "RequireSsl"}, c \in Contexts}

\* ------------------------------------------------------------ error kinds
SocketError(e) == [kind |-> "SocketError", cause |-> Some(e)]
PgConnectStreamError(e) == [kind |-> "PgConnectStreamError", cause |-> Some(e)]
SslError(e) == [kind |-> "SslError", cause |-> Some(e)]
NoSslSupport == [kind |-> "NoSslSupport", cause |-> None]

\* ------------------------------------------------------------ stream enums
TcpStream(addr) == [variant |-> "TcpStream", addr |-> addr]
UnixStream(addr) == [variant |-> "UnixStream", addr |-> addr]
NormalStream(s) == [variant |-> "NormalStream", inner |-> s]
SslStream(s) == [variant |-> "SslStream", inner |-> s]

\* ------------------------------------------------------------- formatting
Digit(d) == <<"0", "1", "2", "3", "4", "5", "6", "7", "8", "9">>[d + 1]

RECURSIVE Decimal(_)
\* format!("{}", port): the decimal digits of port, most significant first.
Decimal(n) == IF n < 10 THEN <<Digit(n)>> ELSE Append(Decimal(n \div 10), Digit(n % 10))

\* format!(".s.PGSQL.{}", port)
SocketFileName(port) == <<".", "s", ".", "P", "G", "S", "Q", "L", ".">> \o Decimal(port)

\* A u32 as four bytes, most significant first.
BE32(n) == << (n \div 16777216) % 256, (n \div 65536) % 256, (n \div 256) % 256, n % 256 >>

\* The bytes write_message puts on the transport for SslRequest { code }:
\* the body is the code, preceded by the length of body plus length field.
SslRequestFrame(code) ==
    LET body == BE32(code)
    IN  BE32(Len(body) + 4) \o body

\* ------------------------------------------------------------------ state
VARIABLES
    params,        \* the ConnectParams of the call
    ssl,           \* the SslMode of the call
    pc,            \* the statement initialize_stream is at
    socket,        \* the local `socket`: Some(stream) while it holds the transport
    ssl_required,  \* the local `ssl_required`
    ctx,           \* the local `ctx`
    opened,        \* what open_socket returned (history)
    owner,         \* who holds the transport
    sent,          \* the bytes written to the transport by this call
    consumed,      \* the number of bytes this call read from the transport
    resp,          \* the response byte read_u8 returned
    trace,         \* the calls made so far, in order, with their outcome
    result,        \* what initialize_stream returned
    last           \* the last call the caller made on the returned stream

vars == <<params, ssl, pc, socket, ssl_required, ctx, opened, owner, sent,
          consumed, resp, trace, result, last>>

\* One call made by initialize_stream: what was called, what it returned, and
\* (for the handshake) the context it was given.
Event(op, out, arg) == [op |-> op, ok |-> (out.tag = "Ok"), out |-> out, arg |-> arg]

\* ------------------------------------------------------------ open_socket
\* Mutant of port_of: the port of the parameters is not looked at.
port_of_default_only(p) == DEFAULT_PORT

\* params.port.unwrap_or(DEFAULT_PORT)
port_of(p) == IF p.port = None THEN DEFAULT_PORT ELSE p.port[1]

\* The address the connect call is given.
connect_addr(p) ==
    LET port == port_of(p)
    IN  IF p.target.kind = "TargetTcp"
        THEN [kind |-> "tcp", name |-> p.target.name, port |-> Some(port)]
        ELSE [kind |-> "unix", name |-> Append(p.target.name, SocketFileName(port)),
              port |-> None]

\* Mutant of open_socket: the connect error is wrapped as the generic I/O
\* failure instead of SocketError.
open_socket_wrong_kind(p, os) ==
    LET addr == connect_addr(p)
    IN  IF os.tag = "Ok"
        THEN Ok(IF p.target.kind = "TargetTcp" THEN TcpStream(addr) ELSE UnixStream(addr))
        ELSE Err(PgConnectStreamError(os.val))

\* open_socket(params), given the outcome os of the one OS-level connect.
open_socket(p, os) ==
    LET addr == connect_addr(p)
        sock == IF os.tag = "Ok"
                THEN Ok(IF p.target.kind = "TargetTcp" THEN TcpStream(addr)
                                                      ELSE UnixStream(addr))
                ELSE os
    IN  IF sock.tag = "Ok" THEN sock ELSE Err(SocketError(sock.val))

\* The outcomes the OS can give a connect.
ConnectOutcomes == {Ok(None)} \cup {Err(e) : e \in IoErrors}

\* ------------------------------------------------------ initialize_stream
\* Mutant of ssl_match: NoSsl does not return early; the request is sent in
\* every mode.
ssl_match_always_negotiate(s) ==
    [ret |-> FALSE, ssl_required |-> (s.mode = "RequireSsl"),
     ctx |-> IF s.mode = "NoSsl" THEN Some(1) ELSE s.ctx]

\* match *ssl { NoSsl => return ..., PreferSsl(ref ctx) => (false, ctx),
\*              RequireSsl(ref ctx) => (true, ctx) }
ssl_match(s) ==
    IF s.mode = "NoSsl"
    THEN [ret |-> TRUE, ssl_required |-> FALSE, ctx |-> None]
    ELSE [ret |-> FALSE, ssl_required |-> (s.mode = "RequireSsl"), ctx |-> s.ctx]

\* try_pg_conn!(e): an Err(err) becomes the return value
\* Err(PgConnectStreamError(err)); an Ok is passed on.
try_pg_conn(r) == IF r.tag = "Err" THEN Err(PgConnectStreamError(r.val)) ELSE r

\* Mutant of request_frame: the code of another request (the cancel
\* request's, SSL_CODE - 1) is passed.
request_frame_wrong_code == SslRequestFrame(SSL_CODE - 1)

\* The request written at line 99.
request_frame == SslRequestFrame(SSL_CODE)

\* Mutant of on_response: the two arms of `if ssl_required` exchanged.
on_response_swapped(b, required, sock) ==
    IF b = DeclineByte
    THEN IF required THEN Ok(NormalStream(sock)) ELSE Err(NoSslSupport)
    ELSE Pending

\* Mutant of on_response: the else arm missing, so a declined PreferSsl
\* request goes on to the handshake.
on_response_fallthrough(b, required, sock) ==
    IF b = DeclineByte /\ required THEN Err(NoSslSupport) ELSE Pending

\* Mutant of on_response: strict validation, every byte other than 'S' (83)
\* is taken as a decline.
on_response_strict(b, required, sock) ==
    IF b # 83
    THEN IF required THEN Err(NoSslSupport) ELSE Ok(NormalStream(sock))
    ELSE Pending

\* if byte == 'N' as u8 { if ssl_required { return Err(NoSslSupport) }
\*                        else { return Ok(NormalStream(socket)) } }
\* Pending: the function goes on to the handshake.
on_response(b, required, sock) ==
    IF b = DeclineByte
    THEN IF required THEN Err(NoSslSupport) ELSE Ok(NormalStream(sock))
    ELSE Pending

\* ssl::SslStream::new(ctx, socket), given the provider's outcome h: the
\* wrapped stream holds the transport and the context it was made with.
ssl_new(c, sock, h) ==
    IF h.tag = "Ok" THEN Ok([ctx |-> c, stream |-> sock]) ELSE h

\* match ssl::SslStream::new(ctx, socket) { Ok(stream) => Ok(SslStream(stream)),
\*                                          Err(err) => Err(SslError(err)) }
on_handshake(h) ==
    IF h.tag = "Ok" THEN Ok(SslStream(h.val)) ELSE Err(SslError(h.val))

\* The outcomes of a write or a flush; of a read_u8; of a handshake.
IoOutcomes == {Ok(None)} \cup {Err(e) : e \in IoErrors}
ReadOutcomes == {Ok(b) : b \in Bytes} \cup {Err(e) : e \in IoErrors}
HandshakeOutcomes == {Ok(None)} \cup {Err(e) : e \in SslErrors}

Init ==
    /\ params \in Params
    /\ ssl \in SslModes
    /\ pc = "open_socket"
    /\ socket = None
    /\ ssl_required = FALSE
    /\ ctx = None
    /\ opened = None
    /\ owner = "nobody"
    /\ sent = <<>>
    /\ consumed = 0
    /\ resp = None
    /\ trace = <<>>
    /\ result = Pending
    /\ last = None

\* Mutant of ReturnErr: the transport outlives the error return (the handle
\* is kept instead of going out of scope).
ReturnErr_leak(r, ev) ==
    /\ result' = r
    /\ pc' = "done"
    /\ trace' = Append(trace, ev)
    /\ socket' = socket
    /\ owner' = owner

\* return Err(e): the local socket, if held, goes out of scope.
ReturnErr(r, ev) ==
    /\ result' = r
    /\ pc' = "done"
    /\ trace' = Append(trace, ev)
    /\ socket' = None
    /\ owner' = IF owner = "nobody" THEN "nobody" ELSE "dropped"

\* Mutant of ReturnOk: the transport is copied into the returned stream and
\* the local handle stays usable.
ReturnOk_alias(r, ev) ==
    /\ result' = r
    /\ pc' = "done"
    /\ trace' = trace \o <<ev, Event("handoff", Ok(None), None)>>
    /\ socket' = socket
    /\ owner' = r.val.variant

\* return Ok(stream): the transport is moved into the returned stream.
ReturnOk(r, ev) ==
    /\ result' = r
    /\ pc' = "done"
    /\ trace' = trace \o <<ev, Event("handoff", Ok(None), None)>>
    /\ socket' = None
    /\ owner' = r.val.variant

\* line 91-97: let mut socket = try!(open_socket(params)); match *ssl { ... }
OpenSocket ==
    /\ pc = "open_socket"
    /\ \E os \in ConnectOutcomes :
         LET r == open_socket(params, os)
             m == ssl_match(ssl)
             ev == Event("open", os, Some(connect_addr(params)))
         IN  IF r.tag = "Err"
             THEN /\ ReturnErr(r, ev)
                  /\ UNCHANGED <<opened, ssl_required, ctx>>
             ELSE /\ opened' = Some(r.val)
                  /\ IF m.ret
                     THEN /\ ReturnOk(Ok(NormalStream(r.val)), ev)
                          /\ UNCHANGED <<ssl_required, ctx>>
                     ELSE /\ socket' = Some(r.val)
                          /\ owner' = "initialize_stream"
                          /\ ssl_required' = m.ssl_required
                          /\ ctx' = m.ctx
                          /\ pc' = "write_message"
                          /\ trace' = Append(trace, ev)
                          /\ UNCHANGED result
    /\ UNCHANGED <<params, ssl, last, sent, consumed, resp>>

\* Mutant of WriteRequest: the flush is left out, the response is read right
\* after the write.
WriteRequest_no_flush ==
    /\ pc = "write_message"
    /\ \E io \in IoOutcomes, k \in 0..(Len(request_frame) - 1) :
         LET t == try_pg_conn(io)
             ev == Event("write", io, None)
         IN  IF t.tag = "Err"
             THEN /\ sent' = sent \o SubSeq(request_frame, 1, k)
                  /\ ReturnErr(t, ev)
             ELSE /\ k = 0
                  /\ sent' = sent \o request_frame
                  /\ pc' = "read_u8"
                  /\ trace' = Append(trace, ev)
                  /\ UNCHANGED <<socket, owner, result>>
    /\ UNCHANGED <<params, ssl, last, ssl_required, ctx, opened, consumed, resp>>

\* line 99: try_pg_conn!(socket.write_message(&SslRequest { code: message::SSL_CODE }));
\* a failed write may have put a proper prefix of the frame on the transport.
WriteRequest ==
    /\ pc = "write_message"
    /\ \E io \in IoOutcomes, k \in 0..(Len(request_frame) - 1) :
         LET t == try_pg_conn(io)
             ev == Event("write", io, None)
         IN  IF t.tag = "Err"
             THEN /\ sent' = sent \o SubSeq(request_frame, 1, k)
                  /\ ReturnErr(t, ev)
             ELSE /\ k = 0
                  /\ sent' = sent \o request_frame
                  /\ pc' = "flush"
                  /\ trace' = Append(trace, ev)
                  /\ UNCHANGED <<socket, owner, result>>
    /\ UNCHANGED <<params, ssl, last, ssl_required, ctx, opened, consumed, resp>>

\* Mutant of FlushRequest: after a failed flush the function does not return
\* but waits for ever.
FlushRequest_hang ==
    /\ pc = "flush"
    /\ \E io \in IoOutcomes :
         /\ pc' = IF io.tag = "Err" THEN "stuck" ELSE "read_u8"
         /\ trace' = Append(trace, Event("flush", io, None))
         /\ UNCHANGED <<socket, owner, result>>
    /\ UNCHANGED <<params, ssl, last, ssl_required, ctx, opened, sent, consumed, resp>>

\* Mutant of FlushRequest: the result of flush is not looked at.
FlushRequest_unchecked ==
    /\ pc = "flush"
    /\ \E io \in IoOutcomes :
         /\ pc' = "read_u8"
         /\ trace' = Append(trace, Event("flush", io, None))
         /\ UNCHANGED <<socket, owner, result>>
    /\ UNCHANGED <<params, ssl, last, ssl_required, ctx, opened, sent, consumed, resp>>

\* line 100: try_pg_conn!(socket.flush());
FlushRequest ==
    /\ pc = "flush"
    /\ \E io \in IoOutcomes :
         LET t == try_pg_conn(io)
             ev == Event("flush", io, None)
         IN  IF t.tag = "Err"
             THEN ReturnErr(t, ev)
             ELSE /\ pc' = "read_u8"
                  /\ trace' = Append(trace, ev)
                  /\ UNCHANGED <<socket, owner, result>>
    /\ UNCHANGED <<params, ssl, last, ssl_required, ctx, opened, sent, consumed, resp>>

\* Mutant of ReadResponse: the response is read through a reader that takes
\* two bytes from the transport.
ReadResponse_overread ==
    /\ pc = "read_u8"
    /\ \E io \in ReadOutcomes :
         LET t == try_pg_conn(io)
             ev == Event("read", io, None)
         IN  IF t.tag = "Err"
             THEN /\ ReturnErr(t, ev)
                  /\ UNCHANGED <<consumed, resp>>
             ELSE LET d == on_response(t.val, ssl_required, socket[1])
                  IN  /\ consumed' = consumed + 2
                      /\ resp' = Some(t.val)
                      /\ IF d.tag = "Err" THEN ReturnErr(d, ev)
                         ELSE IF d.tag = "Ok" THEN ReturnOk(d, ev)
                         ELSE /\ pc' = "handshake"
                              /\ trace' = Append(trace, ev)
                              /\ UNCHANGED <<socket, owner, result>>
    /\ UNCHANGED <<params, ssl, last, ssl_required, ctx, opened, sent>>

\* line 102-108: if try_pg_conn!(socket.read_u8()) == 'N' as u8 { ... }
ReadResponse ==
    /\ pc = "read_u8"
    /\ \E io \in ReadOutcomes :
         LET t == try_pg_conn(io)
             ev == Event("read", io, None)
         IN  IF t.tag = "Err"
             THEN /\ ReturnErr(t, ev)
                  /\ UNCHANGED <<consumed, resp>>
             ELSE LET d == on_response(t.val, ssl_required, socket[1])
                  IN  /\ consumed' = consumed + 1
                      /\ resp' = Some(t.val)
                      /\ IF d.tag = "Err" THEN ReturnErr(d, ev)
                         ELSE IF d.tag = "Ok" THEN ReturnOk(d, ev)
                         ELSE /\ pc' = "handshake"
                              /\ trace' = Append(trace, ev)
                              /\ UNCHANGED <<socket, owner, result>>
    /\ UNCHANGED <<params, ssl, last, ssl_required, ctx, opened, sent>>

\* Mutant of Handshake: a failed handshake is tried once more.
Handshake_retry ==
    /\ pc = "handshake"
    /\ \E h \in HandshakeOutcomes :
         LET r == on_handshake(ssl_new(ctx[1], socket[1], h))
             ev == Event("handshake", h, ctx)
         IN  IF r.tag = "Ok" THEN ReturnOk(r, ev)
             ELSE IF \E i \in DOMAIN trace : trace[i].op = "handshake"
                  THEN ReturnErr(r, ev)
                  ELSE /\ trace' = Append(trace, ev)
                       /\ UNCHANGED <<pc, socket, owner, result>>
    /\ UNCHANGED <<params, ssl, last, ssl_required, ctx, opened, sent, consumed, resp>>

\* Mutant of Handshake: a failed handshake falls back to the plain transport.
Handshake_fallback ==
    /\ pc = "handshake"
    /\ \E h \in HandshakeOutcomes :
         LET r == on_handshake(ssl_new(ctx[1], socket[1], h))
             ev == Event("handshake", h, ctx)
         IN  IF r.tag = "Ok" THEN ReturnOk(r, ev)
             ELSE ReturnOk(Ok(NormalStream(socket[1])), ev)
    /\ UNCHANGED <<params, ssl, last, ssl_required, ctx, opened, sent, consumed, resp>>

\* line 110-113: match ssl::SslStream::new(ctx, socket) { ... }
\* the transport is moved into the provider, which keeps it in the stream it
\* returns or drops it with the error.
Handshake ==
    /\ pc = "handshake"
    /\ \E h \in HandshakeOutcomes :
         LET r == on_handshake(ssl_new(ctx[1], socket[1], h))
             ev == Event("handshake", h, ctx)
         IN  IF r.tag = "Ok" THEN ReturnOk(r, ev) ELSE ReturnErr(r, ev)
    /\ UNCHANGED <<params, ssl, last, ssl_required, ctx, opened, sent, consumed, resp>>

Next ==
    \/ OpenSocket
    \/ WriteRequest
    \/ FlushRequest
    \/ ReadResponse
    \/ Handshake

Spec == Init /\ [][Next]_vars

\* initialize_stream as a function of its arguments and of the answers e of
\* the environment to the calls it makes (e.connect, e.write with e.partial
\* bytes written when it fails, e.flush, e.read, e.hs): the value returned,
\* the calls made in order, the bytes written and the number of bytes read.
Outcome(r, calls, w, c) == [result |-> r, calls |-> calls, sent |-> w, consumed |-> c]

initialize_stream(p, s, e) ==
    LET r == open_socket(p, e.connect)
        m == ssl_match(s)
        w == try_pg_conn(e.write)
        f == try_pg_conn(e.flush)
        b == try_pg_conn(e.read)
        d == on_response(b.val, m.ssl_required, r.val)
        h == on_handshake(ssl_new(m.ctx[1], r.val, e.hs))
    IN  IF r.tag = "Err" THEN Outcome(r, <<"open">>, <<>>, 0)
        ELSE IF m.ret THEN Outcome(Ok(NormalStream(r.val)), <<"open">>, <<>>, 0)
        ELSE IF w.tag = "Err"
             THEN Outcome(w, <<"open", "write">>, SubSeq(request_frame, 1, e.partial), 0)
        ELSE IF f.tag = "Err"
             THEN Outcome(f, <<"open", "write", "flush">>, request_frame, 0)
        ELSE IF b.tag = "Err"
             THEN Outcome(b, <<"open", "write", "flush", "read">>, request_frame, 0)
        ELSE IF d.tag # "Pending"
             THEN Outcome(d, <<"open", "write", "flush", "read">>, request_frame, 1)
        ELSE Outcome(h, <<"open", "write", "flush", "read", "handshake">>,
                     request_frame, 1)

\* The calls are blocking and each one made returns: no step that can be taken
\* is put off for ever.
LiveSpec ==
    /\ Init /\ [][Next]_vars
    /\ WF_vars(OpenSocket) /\ WF_vars(WriteRequest) /\ WF_vars(FlushRequest)
    /\ WF_vars(ReadResponse) /\ WF_vars(Handshake)

\* -------------------------------------------- use of the returned stream
\* What the stream held answers to a read into a buffer of n bytes (a count
\* up to n, 0 included, or an error), and to a write or a flush.
StreamReadOutcomes(n) == {Ok(k) : k \in 0..n} \cup {Err(e) : e \in IoErrors}
StreamIoOutcomes == {Ok(None)} \cup {Err(e) : e \in IoErrors}

\* impl Reader / Writer for InternalStream: read, write and flush each match
\* on *self and call the same method of the stream held, whose answer o is
\* the value returned.  path: the streams the call went to, in order.
InternalStream_call(self, op, o) ==
    CASE self.variant = "TcpStream" -> [ret |-> o, path |-> <<"TcpStream">>, self |-> self]
      [] self.variant = "UnixStream" -> [ret |-> o, path |-> <<"UnixStream">>, self |-> self]

\* Mutant of MaybeSslStream_call: flush on a NormalStream answers Ok(())
\* without calling the stream held.
MaybeSslStream_call_lazy_flush(self, op, o) ==
    CASE self.variant = "SslStream" ->
            [ret |-> o, path |-> <<"SslStream">>, self |-> self]
      [] self.variant = "NormalStream" ->
            IF op = "flush"
            THEN [ret |-> Ok(None), path |-> <<"NormalStream">>, self |-> self]
            ELSE LET r == InternalStream_call(self.inner, op, o)
                 IN  [ret |-> r.ret, path |-> <<"NormalStream">> \o r.path,
                      self |-> NormalStream(r.self)]

\* Mutant of MaybeSslStream_call: an SslStream whose call fails is replaced by
\* a NormalStream over its transport.
MaybeSslStream_call_downgrade(self, op, o) ==
    CASE self.variant = "SslStream" ->
            [ret |-> o, path |-> <<"SslStream">>,
             self |-> IF o.tag = "Err" THEN NormalStream(self.inner.stream) ELSE self]
      [] self.variant = "NormalStream" ->
            LET r == InternalStream_call(self.inner, op, o)
            IN  [ret |-> r.ret, path |-> <<"NormalStream">> \o r.path,
                 self |-> NormalStream(r.self)]

\* impl Reader / Writer for MaybeSslStream<S>: read, write and flush each
\* match on *self and call the same method of the stream held: the
\* ssl::SslStream, whose answer is o, or the S of a NormalStream.
MaybeSslStream_call(self, op, o) ==
    CASE self.variant = "SslStream" ->
            [ret |-> o, path |-> <<"SslStream">>, self |-> self]
      [] self.variant = "NormalStream" ->
            LET r == InternalStream_call(self.inner, op, o)
            IN  [ret |-> r.ret, path |-> <<"NormalStream">> \o r.path,
                 self |-> NormalStream(r.self)]

\* One call op(buf) of the caller on the stream it was returned, answered o
\* by the stream at the bottom.
StreamCall(op, n, o) ==
    /\ pc = "done"
    /\ result.tag = "Ok"
    /\ LET r == MaybeSslStream_call(result.val, op, o)
       IN  /\ last' = Some([op |-> op, len |-> n, inner |-> o, ret |-> r.ret,
                            path |-> r.path])
           /\ result' = Ok(r.self)
    /\ UNCHANGED <<params, ssl, pc, socket, ssl_required, ctx, opened, owner,
                   sent, consumed, resp, trace>>

\* line 20-25, 50-55: read
StreamRead ==
    /\ result.tag = "Ok"
    /\ \E n \in 0..MaxBuf : \E o \in StreamReadOutcomes(n) : StreamCall("read", n, o)

\* line 29-34, 59-64: write
StreamWrite ==
    /\ result.tag = "Ok"
    /\ \E n \in 0..MaxBuf : \E o \in StreamIoOutcomes : StreamCall("write", n, o)

\* line 36-41, 66-71: flush
StreamFlush ==
    /\ result.tag = "Ok"
    /\ \E o \in StreamIoOutcomes : StreamCall("flush", 0, o)

\* The response bytes the server answers with where the use of the stream is
\* explored: 'N', 'S' and the two ends of the byte range.
SampleBytes == {0, DeclineByte, 83, 255}

\* initialize_stream with the server answering from SampleBytes.
Negotiate == Next /\ (resp' = None \/ resp'[1] \in SampleBytes)

\* initialize_stream, then any calls of the caller on the stream returned.
NextUse ==
    \/ Negotiate
    \/ StreamRead
    \/ StreamWrite
    \/ StreamFlush

UseSpec == Init /\ [][NextUse]_vars

\* ------------------------------------------------------------ properties
\* The positions in the trace of the calls of one kind.
Calls(op) == {i \in DOMAIN trace : trace[i].op = op}
Count(op) == Cardinality(Calls(op))
Returned == pc = "done"
\* The transport open_socket returned.
Transport == opened[1]
IsNormalStream(r) == r.tag = "Ok" /\ r.val.variant = "NormalStream"
IsSslStream(r) == r.tag = "Ok" /\ r.val.variant = "SslStream"

\* C1: in RequireSsl mode, once the response byte read is 'N' (so the socket
\* opened and the request was written and flushed), the call has returned
\* Err(NoSslSupport), no handshake was performed and no stream is returned.
C1_RequireDeclined ==
    (ssl.mode = "RequireSsl" /\ resp = Some(DeclineByte)) =>
        /\ Returned
        /\ result = Err(NoSslSupport)
        /\ Count("handshake") = 0
        /\ Count("handoff") = 0
        /\ owner \notin {"NormalStream", "SslStream"}

C1_Witness ==
    /\ ssl.mode = "RequireSsl"
    /\ resp = Some(DeclineByte)
    /\ Count("write") = 1 /\ Count("flush") = 1 /\ Count("read") = 1
    /\ Returned

\* C2: in PreferSsl mode, once the response byte read is 'N', the call has
\* returned Ok(NormalStream(socket)) holding the transport open_socket
\* returned, and no handshake was performed.
C2_PreferDeclined ==
    (ssl.mode = "PreferSsl" /\ resp = Some(DeclineByte)) =>
        /\ Returned
        /\ result = Ok(NormalStream(Transport))
        /\ owner = "NormalStream"
        /\ Count("handshake") = 0

C2_Witness ==
    /\ ssl.mode = "PreferSsl"
    /\ resp = Some(DeclineByte)
    /\ Count("write") = 1 /\ Count("flush") = 1 /\ Count("read") = 1
    /\ Returned

\* C3: when the response byte is an accept byte (any byte the code does not
\* take as a decline, 'S' among them), no handshake has happened while the
\* call is about to make it, and once the call has returned exactly one
\* handshake was attempted, with the context of the SslMode; if it succeeded
\* the result is the SslStream variant over that transport and context, if it
\* failed the result is Err(SslError(e)) with e the provider's error; the
\* result is never a NormalStream.
C3_AcceptHandshake ==
    (resp # None /\ resp[1] # DeclineByte) =>
        /\ ~Returned => (pc = "handshake" /\ Count("handshake") = 0)
        /\ Returned =>
             /\ Count("handshake") = 1
             /\ \A i \in Calls("handshake") :
                  /\ trace[i].arg = ssl.ctx
                  /\ trace[i].ok =>
                       result = Ok(SslStream([ctx |-> ssl.ctx[1], stream |-> Transport]))
                  /\ ~trace[i].ok =>
                       result = Err(SslError(trace[i].out.val))
             /\ ~IsNormalStream(result)

\* the accept byte 'S' was read and the handshake failed
C3_Witness ==
    /\ resp = Some(83)
    /\ Returned
    /\ \E i \in Calls("handshake") : ~trace[i].ok
    /\ ssl.mode = "PreferSsl"

\* C4: in NoSsl mode, once the socket has opened, nothing was written to the
\* transport, nothing was read from it, no write, flush, read or handshake
\* call was made, and the call has returned NormalStream wrapping the very
\* transport open_socket returned.
C4_NoSslPlain ==
    (ssl.mode = "NoSsl" /\ opened # None) =>
        /\ sent = <<>>
        /\ consumed = 0
        /\ Count("write") = 0 /\ Count("flush") = 0
        /\ Count("read") = 0 /\ Count("handshake") = 0
        /\ Returned
        /\ result = Ok(NormalStream(Transport))
        /\ Transport = open_socket(params, Ok(None)).val

C4_Witness ==
    /\ ssl.mode = "NoSsl"
    /\ opened # None
    /\ Returned
    /\ params.target.kind = "TargetUnix"

\* C5: in PreferSsl and RequireSsl mode every response byte other than 'N'
\* is taken as acceptance: the call goes on to the handshake and never
\* returns NormalStream or NoSslSupport; and a NormalStream or NoSslSupport
\* result after a response was read means the byte was 'N'.
C5_OnlyNDeclines ==
    /\ (resp # None /\ resp[1] \in Bytes \ {DeclineByte}) =>
            /\ ssl.mode \in {"PreferSsl", "RequireSsl"}
            /\ pc = "handshake" \/ Count("handshake") = 1
            /\ ~IsNormalStream(result)
            /\ result # Err(NoSslSupport)
    /\ (resp # None /\ (IsNormalStream(result) \/ result = Err(NoSslSupport)))
          => resp = Some(DeclineByte)

\* a byte that is neither 'N' nor 'S' led to an encrypted stream
C5_Witness ==
    /\ resp = Some(0)
    /\ Returned
    /\ IsSslStream(result)
    /\ ssl.mode = "RequireSsl"

\* The value of four bytes read as a big-endian u32.
FromBE32(bs) == bs[1] * 16777216 + bs[2] * 65536 + bs[3] * 256 + bs[4]

IsRequestFrame(bs) ==
    /\ Len(bs) = 8
    /\ SubSeq(bs, 1, 4) = <<0, 0, 0, 8>>
    /\ FromBE32(SubSeq(bs, 1, 4)) = 8
    /\ FromBE32(SubSeq(bs, 5, 8)) = SSL_CODE

\* C6: whenever the request was written without error, and so whenever the
\* response is read, the bytes written to the transport are exactly 8: the
\* length 8 as a 4-byte big-endian field, then the 4-byte SSL_CODE; a request
\* is sent only in PreferSsl and RequireSsl mode, for either transport.
C6_RequestFrame ==
    /\ (\E i \in Calls("write") : trace[i].ok) =>
          (IsRequestFrame(sent) /\ ssl.mode \in {"PreferSsl", "RequireSsl"})
    /\ (pc = "read_u8" \/ Count("read") > 0) => IsRequestFrame(sent)

C6_Witness ==
    /\ Count("read") = 1
    /\ Len(sent) = 8
    /\ ssl.mode = "RequireSsl"
    /\ Transport.variant = "UnixStream"

\* C7: when the write of the request, its flush or the read of the response
\* returns an I/O error e, that call is the last one made: the call has
\* returned Err(PgConnectStreamError(e)), no handshake was performed and the
\* result is no stream, in PreferSsl mode as in RequireSsl mode.
C7_IoErrorFatal ==
    \A i \in DOMAIN trace :
        (trace[i].op \in {"write", "flush", "read"} /\ ~trace[i].ok) =>
            /\ i = Len(trace)
            /\ Returned
            /\ result = Err(PgConnectStreamError(trace[i].out.val))
            /\ Count("handshake") = 0
            /\ Count("handoff") = 0
            /\ owner \notin {"NormalStream", "SslStream"}

\* the flush failed in PreferSsl mode
C7_Witness ==
    /\ ssl.mode = "PreferSsl"
    /\ \E i \in Calls("flush") : ~trace[i].ok
    /\ Returned

\* C8: for either target and every mode, when the connect fails with the OS
\* error e the call has returned Err(SocketError(e)), the connect was the only
\* call made and was made once, nothing was written or read, no handshake was
\* performed and no transport exists.
C8_ConnectFailure ==
    \A i \in Calls("open") :
        ~trace[i].ok =>
            /\ Returned
            /\ result = Err(SocketError(trace[i].out.val))
            /\ Count("open") = 1
            /\ Len(trace) = 1
            /\ sent = <<>>
            /\ consumed = 0
            /\ Count("handshake") = 0
            /\ socket = None /\ opened = None /\ owner = "nobody"

C8_Witness ==
    /\ \E i \in Calls("open") : ~trace[i].ok
    /\ Returned
    /\ ssl.mode = "NoSsl"
    /\ params.target.kind = "TargetUnix"

\* C9 as stated: a call that has returned wrote exactly one request frame and
\* performed at most one handshake.
C9_ExactlyOneFrame ==
    Returned => (Count("write") = 1 /\ Count("handshake") <= 1)

\* C9, amended: a call writes the request frame at most once and performs at
\* most one handshake; a call that has returned wrote it exactly once when the
\* socket opened and the mode is PreferSsl or RequireSsl, and not at all
\* otherwise; never more than the bytes of one frame are on the transport.
C9_AtMostOneFrame ==
    /\ Count("write") <= 1
    /\ Count("handshake") <= 1
    /\ Len(sent) <= Len(request_frame)
    /\ Returned =>
         (Count("write") = 1 <=> (opened # None /\ ssl.mode \in {"PreferSsl", "RequireSsl"}))

C9_Witness ==
    /\ Returned
    /\ Count("write") = 1
    /\ Count("handshake") = 1

\* The place of a call in the fixed order.
Rank(op) ==
    CASE op = "open" -> 1
      [] op = "write" -> 2
      [] op = "flush" -> 3
      [] op = "read" -> 4
      [] op = "handshake" -> 5
      [] op = "handoff" -> 6

\* C10: the calls made are in the order open, write, flush, read, handshake,
\* handoff, each at most once and each after the one before it succeeded:
\* nothing is written before the socket is open, the response is read only
\* after the flush has succeeded, the handshake starts only after a response
\* byte was read, and the handoff is the last event, after the last call made
\* has succeeded.
C10_Order ==
    /\ \A i, j \in DOMAIN trace : i < j => Rank(trace[i].op) < Rank(trace[j].op)
    /\ \A i \in DOMAIN trace : i < Len(trace) => trace[i].ok
    /\ (sent # <<>> \/ Count("write") > 0) => (trace[1].op = "open" /\ trace[1].ok)
    /\ \A i \in Calls("read") :
         \E j \in Calls("flush") : j < i /\ trace[j].ok
    /\ \A i \in Calls("handshake") :
         /\ \E j \in Calls("read") : j < i /\ trace[j].ok
         /\ resp # None
    /\ \A i \in Calls("handoff") :
         /\ i = Len(trace) /\ i > 1 /\ trace[i - 1].ok
         /\ Returned /\ result.tag = "Ok"
    /\ result.tag = "Ok" => Count("handoff") = 1

\* all six events happened
C10_Witness ==
    /\ Len(trace) = 6
    /\ trace[6].op = "handoff"
    /\ IsSslStream(result)

\* The decimal digits, and the number a digit string denotes.
IsDigit(c) == \E d \in 0..9 : Digit(d) = c
DigitValue(c) == CHOOSE d \in 0..9 : Digit(d) = c
RECURSIVE ParseDecimal(_)
ParseDecimal(cs) ==
    IF cs = <<>> THEN 0
    ELSE 10 * ParseDecimal(SubSeq(cs, 1, Len(cs) - 1)) + DigitValue(cs[Len(cs)])

\* The port the parameters ask for.
ExpectedPort == IF Len(params.port) = 0 THEN 5432 ELSE params.port[1]

\* A socket file name for port n: ".s.PGSQL." then n in decimal, without
\* sign, padding or leading zero.
IsSocketFileName(f, n) ==
    /\ Len(f) > 9
    /\ SubSeq(f, 1, 9) = <<".", "s", ".", "P", "G", "S", "Q", "L", ".">>
    /\ LET ds == SubSeq(f, 10, Len(f))
       IN  /\ \A k \in DOMAIN ds : IsDigit(ds[k])
           /\ Len(ds) > 1 => ds[1] # "0"
           /\ ParseDecimal(ds) = n

\* C11: the address handed to the one connect call is, for every port value:
\* for TargetTcp(host) the pair (host, port), for TargetUnix(dir) the path dir
\* joined with the file name ".s.PGSQL.<port in decimal>", where port is
\* params.port when set and 5432 when unset; port 5432, set or defaulted,
\* gives ".s.PGSQL.5432"; the directory of the parameters is as the caller
\* gave it.
C11_Address ==
    /\ params \in Params
    /\ \A i \in Calls("open") :
         LET a == trace[i].arg[1]
         IN  /\ params.target.kind = "TargetTcp" =>
                  a = [kind |-> "tcp", name |-> params.target.name,
                       port |-> <<ExpectedPort>>]
             /\ params.target.kind = "TargetUnix" =>
                  /\ a.kind = "unix"
                  /\ Len(a.name) = Len(params.target.name) + 1
                  /\ SubSeq(a.name, 1, Len(params.target.name)) = params.target.name
                  /\ IsSocketFileName(a.name[Len(a.name)], ExpectedPort)
                  /\ ExpectedPort = 5432 =>
                       a.name[Len(a.name)] =
                          <<".", "s", ".", "P", "G", "S", "Q", "L", ".", "5", "4", "3", "2">>
             /\ trace[i].ok => Transport.addr = a

\* a domain socket was opened with the port left unset
C11_Witness ==
    /\ params.target.kind = "TargetUnix"
    /\ params.port = None
    /\ opened # None
    /\ Transport.variant = "UnixStream"

\* The InternalStream inside a returned MaybeSslStream.
InternalOf(st) == IF st.variant = "NormalStream" THEN st.inner ELSE st.inner.stream

\* C12: every read, write or flush on the returned MaybeSslStream returns
\* exactly what the stream at the bottom answered (a count, 0 included, or the
\* error, unchanged) and went once to each stream on the way: to the
\* ssl::SslStream of an SslStream, to the InternalStream of a NormalStream and
\* from it to its TcpStream or UnixStream; so for the same answer a
\* NormalStream and an SslStream over the transport return the same.
C12_Dispatch ==
    /\ last # None =>
         /\ last[1].ret = last[1].inner
         /\ last[1].path = IF result.val.variant = "SslStream"
                           THEN <<"SslStream">>
                           ELSE <<"NormalStream", Transport.variant>>
    /\ result.tag = "Ok" =>
         \A op \in {"read", "write", "flush"} :
            \A o \in IF op = "read" THEN StreamReadOutcomes(MaxBuf) ELSE StreamIoOutcomes :
               LET plain == MaybeSslStream_call(NormalStream(Transport), op, o)
                   enc == MaybeSslStream_call(
                              SslStream([ctx |-> 1, stream |-> Transport]), op, o)
               IN  plain.ret = o /\ enc.ret = o

\* a read into an empty buffer on an encrypted stream returned Ok(0)
C12_Witness ==
    /\ last # None
    /\ last[1].op = "read" /\ last[1].len = 0 /\ last[1].ret = Ok(0)
    /\ result.val.variant = "SslStream"

\* C13: a call on the returned MaybeSslStream, failed or not, leaves its
\* variant as it was, and the variant of the InternalStream in it.
C13_VariantFixed ==
    [][(result.tag = "Ok" /\ result'.tag = "Ok") =>
          /\ result'.val.variant = result.val.variant
          /\ InternalOf(result'.val).variant = InternalOf(result.val).variant
          /\ InternalOf(result'.val).variant = Transport.variant]_vars

\* a call on an SslStream returned an error
C13_Witness ==
    /\ last # None
    /\ last[1].ret.tag = "Err"
    /\ result.val.variant = "SslStream"
    /\ Count("handshake") = 1

\* The six outcomes of a call.
IsOutcome(r) ==
    \/ r.tag = "Ok" /\ r.val.variant \in {"NormalStream", "SslStream"}
    \/ r.tag = "Err" /\ r.val.kind \in {"SocketError", "PgConnectStreamError",
                                         "NoSslSupport", "SslError"}

\* C14: when every call made returns, the call of initialize_stream returns;
\* what it returns is one of NormalStream, SslStream, SocketError, the generic
\* I/O failure, NoSslSupport and SslError, a stream handed over or an error
\* and never both; and once it has returned nothing more is written, read or
\* called.
C14_Terminates ==
    /\ <>Returned
    /\ [](Returned =>
            /\ IsOutcome(result)
            /\ result.tag = "Ok" => (Count("handoff") = 1 /\ owner = result.val.variant)
            /\ result.tag = "Err" =>
                 (Count("handoff") = 0 /\ owner \notin {"NormalStream", "SslStream"}))
    /\ [](~Returned => result = Pending)
    /\ [][Returned => UNCHANGED <<pc, result, sent, consumed, trace>>]_vars

\* the call returned the generic I/O failure after a failed flush
C14_Witness ==
    /\ Returned
    /\ result.tag = "Err"
    /\ result.val.kind = "PgConnectStreamError"
    /\ \E i \in Calls("flush") : ~trace[i].ok

\* Who holds a usable handle to the transport: the local `socket` of
\* initialize_stream, the returned NormalStream, the returned SslStream.
Holders ==
    (IF socket # None THEN {"initialize_stream"} ELSE {})
    \cup (IF IsNormalStream(result) THEN {"NormalStream"} ELSE {})
    \cup (IF IsSslStream(result) THEN {"SslStream"} ELSE {})

\* C15: while the opened transport exists it has exactly one holder:
\* initialize_stream until it returns or hands the transport to the
\* handshake, then the NormalStream or the SslStream returned; the local
\* handle is gone once the transport was moved, what is held is the transport
\* that was opened, and a NormalStream never exists beside a stream the
\* handshake made.
C15_SingleOwner ==
    /\ Cardinality(Holders) <= 1
    /\ owner \in {"nobody", "dropped"} => Holders = {}
    /\ owner \notin {"nobody", "dropped"} => Holders = {owner}
    /\ opened = None <=> owner = "nobody"
    /\ (opened # None /\ ~Returned) => owner = "initialize_stream"
    /\ socket # None => socket[1] = Transport
    /\ result.tag = "Ok" => (socket = None /\ InternalOf(result.val) = Transport)
    /\ (\E i \in Calls("handshake") : TRUE) => (socket = None /\ ~IsNormalStream(result))

\* the transport was moved into a NormalStream after a declined request
C15_Witness ==
    /\ IsNormalStream(result)
    /\ resp = Some(DeclineByte)
    /\ owner = "NormalStream"
    /\ socket = None

\* C16: in PreferSsl and RequireSsl mode the call takes one byte from the
\* transport, and only with the read that succeeds: a NormalStream returned
\* after a decline has had the 8 bytes of the request written and 1 byte
\* read, and when the transport goes to the handshake 1 byte has been read.
C16_OneByteRead ==
    /\ consumed = Cardinality({i \in Calls("read") : trace[i].ok})
    /\ consumed <= 1
    /\ (IsNormalStream(result) /\ ssl.mode \in {"PreferSsl", "RequireSsl"}) =>
          (Len(sent) = 8 /\ consumed = 1)
    /\ (pc = "handshake" \/ Count("handshake") > 0) => consumed = 1

\* the transport went to the handshake after one byte was read
C16_Witness ==
    /\ Count("handshake") = 1
    /\ consumed = 1
    /\ Len(sent) = 8

\* C17: in RequireSsl mode no call returns a NormalStream, whatever the server
\* sends and whichever call fails: it returns an SslStream or an error; and a
\* NormalStream is returned only in NoSsl mode, or in PreferSsl mode after the
\* response byte 'N'.
C17_RequireNeverPlain ==
    /\ ssl.mode = "RequireSsl" =>
         /\ ~IsNormalStream(result)
         /\ owner # "NormalStream"
         /\ Returned => (IsSslStream(result) \/ result.tag = "Err")
    /\ IsNormalStream(result) =>
         \/ ssl.mode = "NoSsl"
         \/ ssl.mode = "PreferSsl" /\ resp = Some(DeclineByte)

\* a RequireSsl call ended with a failed handshake
C17_Witness ==
    /\ ssl.mode = "RequireSsl"
    /\ Returned
    /\ \E i \in Calls("handshake") : ~trace[i].ok
    /\ result.tag = "Err"

\* What the environment answered to a call that was made; dflt for a call
\* that was not made.
Answer(op, dflt) ==
    IF \E i \in DOMAIN trace : trace[i].op = op
    THEN trace[CHOOSE i \in DOMAIN trace : trace[i].op = op].out
    ELSE dflt

\* The answers of the environment in this run.
EnvOfRun ==
    [connect |-> Answer("open", Ok(None)),
     write   |-> Answer("write", Ok(None)),
     partial |-> IF Answer("write", Ok(None)).tag = "Err" THEN Len(sent) ELSE 0,
     flush   |-> Answer("flush", Ok(None)),
     read    |-> Answer("read", Ok(0)),
     hs      |-> Answer("handshake", Ok(None))]

\* The calls made in this run, in order.
CallsMade ==
    LET n == Cardinality({i \in DOMAIN trace : trace[i].op # "handoff"})
    IN  [i \in 1..n |-> trace[i].op]

\* The SslMode with the other of PreferSsl and RequireSsl, over the same context.
OtherMode(s) ==
    [s EXCEPT !.mode = IF s.mode = "PreferSsl" THEN "RequireSsl" ELSE "PreferSsl"]

\* C18: what a call returns, the calls it makes, the bytes it writes and reads
\* are a function of its arguments and of the answers of the environment; and
\* for the same parameters, context and answers the PreferSsl and the
\* RequireSsl call make the same calls and write and read the same, and return
\* the same, except that after the response byte 'N' the one returns the
\* NormalStream and the other NoSslSupport.
C18_ModeOnlyAtDecline ==
    (Returned /\ ssl.mode \in {"PreferSsl", "RequireSsl"}) =>
        LET e == EnvOfRun
            this == initialize_stream(params, ssl, e)
            that == initialize_stream(params, OtherMode(ssl), e)
            prefer == IF ssl.mode = "PreferSsl" THEN this ELSE that
            require == IF ssl.mode = "PreferSsl" THEN that ELSE this
        IN  /\ this.result = result
            /\ this.calls = CallsMade
            /\ this.sent = sent
            /\ this.consumed = consumed
            /\ that.calls = this.calls
            /\ that.sent = this.sent
            /\ that.consumed = this.consumed
            /\ IF resp = Some(DeclineByte)
               THEN /\ prefer.result = Ok(NormalStream(Transport))
                    /\ require.result = Err(NoSslSupport)
               ELSE that.result = this.result

\* a PreferSsl call that returned the NormalStream after the byte 'N'
C18_Witness ==
    /\ Returned
    /\ ssl.mode = "PreferSsl"
    /\ resp = Some(DeclineByte)
    /\ IsNormalStream(result)
    /\ initialize_stream(params, OtherMode(ssl), EnvOfRun).result = Err(NoSslSupport)

\* C19: when a call that opened the socket returns an error (the generic I/O
\* failure of the write, the flush or the read, NoSslSupport, SslError), the
\* transport is released: no stream was handed over, neither the local handle
\* nor a stream holds it, and it has been dropped, which closes it.
C19_ReleasedOnError ==
    (Returned /\ result.tag = "Err" /\ opened # None) =>
        /\ result.val.kind \in {"PgConnectStreamError", "NoSslSupport", "SslError"}
        /\ owner = "dropped"
        /\ socket = None
        /\ Holders = {}
        /\ Count("handoff") = 0

\* the handshake failed after the transport was handed to it
C19_Witness ==
    /\ Returned
    /\ opened # None
    /\ result.tag = "Err"
    /\ result.val.kind = "SslError"
    /\ owner = "dropped"
====
